---- MODULE Spec2Model ----
(***************************************************************************)
(* Round-robin selection of phone numbers over a shared Redis store        *)
(* (roundrobin/roundrobin.go) and the driver that calls it (main).         *)
(*                                                                         *)
(* Every store call of a handler is one atomic step of the client that     *)
(* runs it: Redis executes single commands atomically, and nothing else    *)
(* is atomic.  Variables named after the Redis keys are the store; frame   *)
(* holds, per client, the locals of the call it runs.                      *)
(***************************************************************************)
EXTENDS Integers, Sequences, FiniteSets, TLC

\* ------------------------------------------------------------------ bounds
\* Number of distinct phone numbers callers may pass: the sequential client,
\* and the concurrent clients.
PhoneCount == 3
ConcPhoneCount == 2
\* Number of calls (of any handler) begun in one behaviour: of the sequential
\* client, and of the concurrent clients together.
MaxOps == 8
MaxConcOps == 4
\* The retry budget of GetNextPhoneNumber (100 in the source), scaled down.
maxRetries == 2
\* Calls begun in a behaviour of SpecLease, SpecErr and SpecCrash.
MaxLeaseOps == 5
MaxErrOps == 5
MaxCrashOps == 3
\* Line 96: the TTL of the lock key, in seconds.
lockDuration == 10

\* Phone numbers, in lexicographic order (Redis breaks score ties by member).
\* Callers pass non-empty numbers, as main does: the handler's
\* selectedPhone == "" stands for "nothing selected".
AllPhones == <<"+6281234567890", "+6281234567891", "+6281234567892",
               "+6281234567893", "+6281234567894">>
Phones == {AllPhones[n] : n \in 1..PhoneCount}
ConcPhones == {AllPhones[n] : n \in 1..ConcPhoneCount}
PhoneIdx(m) == CHOOSE n \in 1..Len(AllPhones) : AllPhones[n] = m

\* The TTL main passes to SetPhoneNumberLockLimited.
MainDurations == {"50m"}
\* Durations a lease may ask for.
Durations == {"50m", "1h"}

\* The clients (goroutines) and the sequential one.
Procs == {"g1", "g2"}
SeqProcs == {"g1"}

\* ------------------------------------------------------------------ errors
NoErr == "nil"
RedisNil == "redis: nil"
ErrExists == "phone number already exists"
ErrNotExist == "phone number does not exist"
ErrNoPhones == "no phone numbers available"
ErrAllLocked == "no available phone numbers (all are locked)"
ErrLockTimeout == "failed to acquire lock after maximum retries"
ErrStore == "store error"

\* --------------------------------------------------------- store primitives
\* A sorted set is a function from its members to their scores.
EmptyZSet == [m \in {} |-> 0]

\* ZSCORE: go-redis returns (0, redis.Nil) for a member that is absent.
ZScore(zs, m) ==
    IF m \in DOMAIN zs THEN [score |-> zs[m], err |-> NoErr]
                       ELSE [score |-> 0, err |-> RedisNil]

ZCard(zs) == Cardinality(DOMAIN zs)

\* ZADD without flags: inserts the member or overwrites its score.
ZAdd(zs, m, score) ==
    [x \in (DOMAIN zs) \cup {m} |-> IF x = m THEN score ELSE zs[x]]

\* Redis' order on a sorted set: by score, then by member.
ZLess(zs, a, b) ==
    \/ zs[a] < zs[b]
    \/ zs[a] = zs[b] /\ PhoneIdx(a) < PhoneIdx(b)

ZMin(zs, S) == CHOOSE a \in S : \A b \in S \ {a} : ZLess(zs, a, b)
ZMax(zs, S) == CHOOSE a \in S : \A b \in S \ {a} : ZLess(zs, b, a)

RECURSIVE ZAscending(_, _)
ZAscending(zs, S) ==
    IF S = {} THEN <<>>
    ELSE LET a == ZMin(zs, S)
         IN <<[Member |-> a, Score |-> zs[a]]>> \o ZAscending(zs, S \ {a})

\* fmt.Sprintf("%f", x) of an integral float64, and Redis' parse of it.
FormatF(x) ==
    [kind |-> "num", neg |-> x < 0, whole |-> IF x < 0 THEN -x ELSE x,
     frac |-> 0]
NegInf == [kind |-> "-inf", neg |-> TRUE, whole |-> 0, frac |-> 0]
PosInf == [kind |-> "+inf", neg |-> FALSE, whole |-> 0, frac |-> 0]
\* score >= bound, for a bound that is a Min; score <= bound for a Max.
\* A formatted number with no fraction is compared on its whole part.
AtLeast(score, b) ==
    CASE b.kind = "-inf" -> TRUE
      [] b.kind = "+inf" -> FALSE
      [] OTHER -> score >= (IF b.neg THEN -b.whole ELSE b.whole)
AtMost(score, b) ==
    CASE b.kind = "+inf" -> TRUE
      [] b.kind = "-inf" -> FALSE
      [] OTHER -> score <= (IF b.neg THEN -b.whole ELSE b.whole)

\* ZRANGEBYSCORE key min max WITHSCORES: both bounds inclusive, ascending.
ZRangeByScoreWithScores(zs, min, max) ==
    ZAscending(zs, {m \in DOMAIN zs : AtLeast(zs[m], min) /\ AtMost(zs[m], max)})

\* ZREVRANGE key 0 0 WITHSCORES: the member of highest rank, if any.
ZRevRangeWithScores00(zs) ==
    IF DOMAIN zs = {} THEN <<>>
    ELSE LET a == ZMax(zs, DOMAIN zs)
         IN <<[Member |-> a, Score |-> zs[a]]>>

\* A counter written as 1 instead of incremented.
SetToOne(c, k) == [x \in (DOMAIN c) \cup {k} |-> IF x = k THEN 1 ELSE c[x]]

\* INCR: a missing key counts as 0.
Incr(c, k) ==
    [x \in (DOMAIN c) \cup {k} |->
        IF x = k THEN (IF k \in DOMAIN c THEN c[k] ELSE 0) + 1 ELSE c[x]]

\* SET with a TTL and no NX: the key's TTL is overwritten.
SetKey(keys, k, ttl) ==
    [x \in (DOMAIN keys) \cup {k} |-> IF x = k THEN ttl ELSE keys[x]]

\* SET NX with a TTL on a keyspace modelled as key -> TTL: no overwrite.
SetNXKey(keys, k, ttl) ==
    IF k \in DOMAIN keys THEN keys
    ELSE [x \in (DOMAIN keys) \cup {k} |-> IF x = k THEN ttl ELSE keys[x]]

DelKey(keys, k) == [x \in (DOMAIN keys) \ {k} |-> keys[x]]

\* A plain SET: it succeeds whether or not the key exists.
SetAlways(held) == TRUE

\* SET NX on the single lock key: TRUE iff the key was absent and is now set.
SetNXAcquired(held) == ~held

\* ------------------------------------------------------------------- state
VARIABLES
    phoneNumbers,       \* message_gateway:phone_numbers, the sorted set
    lock,               \* message_gateway:lock exists
    lastUsedIndex,      \* message_gateway:last_used_index: <<>> or <<score>>
    counter,            \* message_gateway:counter:<phone>, for the keys that exist
    phoneLockLimited,   \* message_gateway:phone_lock_limited:<phone> -> its TTL
    frame,              \* per client: the locals of the call it runs
    call,               \* history, per client: what held during its call; its
                        \* SetNX took the lock; it changed the last used index
                        \* or a counter
    hist,               \* history: calls begun; an id was added twice; the plain
                        \* rotation was disturbed (a lease, an add after a
                        \* selection); the lock's TTL elapsed under a holder;
                        \* the phone of the latest successful selection; the
                        \* lock key is left over from a Del that failed
    order,              \* history: phones in the order they first entered the set
    nSelected           \* history: per phone, calls that returned it to the caller

store == <<phoneNumbers, lock, lastUsedIndex, counter, phoneLockLimited>>
vars == <<phoneNumbers, lock, lastUsedIndex, counter, phoneLockLimited,
          frame, call, hist, order, nSelected>>

NoRet == [val |-> "", err |-> NoErr]
Idle ==
    [pc |-> "idle", op |-> "", number |-> "", ttl |-> "", size |-> 0, i |-> 0,
     lastScore |-> 0, scores |-> <<>>, idx |-> 0, selectedPhone |-> "",
     selectedScore |-> 0, nextScore |-> 0, ret |-> NoRet]
NoCall == [leasedThroughout |-> {}, leaseFixed |-> TRUE, acquired |-> FALSE,
           mutated |-> FALSE]

\* Positions of GetNextPhoneNumber between the SetNX that took the lock and
\* the deferred Del, and those of the critical section proper.
HoldingPcs == {"get_last", "zrange", "zrange_all", "first_pass", "second_pass",
               "set_last", "incr", "del"}
CriticalPcs == HoldingPcs \ {"del"}
GetNextPcs == {"zcard", "setnx"} \cup HoldingPcs
Leased == DOMAIN phoneLockLimited
Pool == DOMAIN phoneNumbers

Init ==
    /\ phoneNumbers = EmptyZSet
    /\ lock = FALSE
    /\ lastUsedIndex = <<>>
    /\ counter = [m \in {} |-> 0]
    /\ phoneLockLimited = [m \in {} |-> ""]
    /\ frame = [p \in Procs |-> Idle]
    /\ call = [p \in Procs |-> NoCall]
    /\ hist = [ops |-> 0, dupAdd |-> FALSE, disturbed |-> FALSE, outlasted |-> FALSE,
               last |-> "", stale |-> FALSE]
    /\ order = <<>>
    /\ nSelected = [m \in Phones \cup ConcPhones |-> 0]

\* ------------------------------------------------------- AddPhoneNumber
BeginAdd(p, n) ==
    /\ frame[p].pc = "idle"
    /\ frame' = [frame EXCEPT ![p] = [Idle EXCEPT !.pc = "add_zscore", !.op = "AddPhoneNumber", !.number = n]]
    /\ hist' = [hist EXCEPT !.ops = @ + 1,
                            !.dupAdd = @ \/ n \in Pool,
                            !.disturbed = @ \/ lastUsedIndex # <<>>]
    /\ UNCHANGED <<store, call, order, nSelected>>

\* Lines 40-46: "already exists" is decided on score != 0.
AddZScore(p) ==
    /\ frame[p].pc = "add_zscore"
    /\ LET r == ZScore(phoneNumbers, frame[p].number)
       IN frame' = [frame EXCEPT ![p] =
            IF r.score # 0
            THEN [@ EXCEPT !.pc = "done", !.ret = [val |-> "", err |-> ErrExists]]
            ELSE [@ EXCEPT !.pc = "add_zrevrange"]]
    /\ UNCHANGED <<store, call, hist, order, nSelected>>

\* The highest score taken as it is, without the + 1.
NextScoreNoStep(top) == IF Len(top) > 0 THEN top[1].Score ELSE 0

\* Lines 54-58: highest + 1, or 0 if the set is empty.
NextScore(top) == IF Len(top) > 0 THEN top[1].Score + 1 ELSE 0

\* Lines 49-58.
AddZRevRange(p) ==
    /\ frame[p].pc = "add_zrevrange"
    /\ frame' = [frame EXCEPT ![p].pc = "add_zadd",
                              ![p].nextScore = NextScore(ZRevRangeWithScores00(phoneNumbers))]
    /\ UNCHANGED <<store, call, hist, order, nSelected>>

\* Lines 61-64.
AddZAdd(p) ==
    /\ frame[p].pc = "add_zadd"
    /\ phoneNumbers' = ZAdd(phoneNumbers, frame[p].number, frame[p].nextScore)
    /\ order' = IF frame[p].number \in Pool THEN order
                ELSE Append(order, frame[p].number)
    /\ frame' = [frame EXCEPT ![p].pc = "done", ![p].ret = NoRet]
    /\ UNCHANGED <<lock, lastUsedIndex, counter, phoneLockLimited, call, hist, nSelected>>

\* ------------------------------------------- SetPhoneNumberLockLimited
BeginLease(p, n, d) ==
    /\ frame[p].pc = "idle"
    /\ frame' = [frame EXCEPT ![p] =
                    [Idle EXCEPT !.pc = "lease_zscore", !.op = "SetPhoneNumberLockLimited",
                                 !.number = n, !.ttl = d]]
    /\ hist' = [hist EXCEPT !.ops = @ + 1]
    /\ UNCHANGED <<store, call, order, nSelected>>

\* The lock key set without looking the phone up.
LeaseZScoreNoCheck(p) ==
    /\ frame[p].pc = "lease_zscore"
    /\ frame' = [frame EXCEPT ![p].pc = "lease_setnx"]
    /\ UNCHANGED <<store, call, hist, order, nSelected>>

\* Lines 70-76.
LeaseZScore(p) ==
    /\ frame[p].pc = "lease_zscore"
    /\ LET r == ZScore(phoneNumbers, frame[p].number)
       IN frame' = [frame EXCEPT ![p] =
            IF r.err = RedisNil
            THEN [@ EXCEPT !.pc = "done", !.ret = [val |-> "", err |-> ErrNotExist]]
            ELSE [@ EXCEPT !.pc = "lease_setnx"]]
    /\ UNCHANGED <<store, call, hist, order, nSelected>>

\* A lease appearing or disappearing ends "the leases were fixed" for every
\* GetNextPhoneNumber call in flight; one that disappears was not held throughout.
LeasesChanged(gone) ==
    [q \in Procs |->
        IF frame[q].pc \in GetNextPcs
        THEN [call[q] EXCEPT !.leasedThroughout = @ \ gone, !.leaseFixed = FALSE]
        ELSE call[q]]

\* Lines 79-80: SetNX(...).Err() is nil whether or not the key was set.
LeaseSetNX(p) ==
    /\ frame[p].pc = "lease_setnx"
    /\ phoneLockLimited' = SetNXKey(phoneLockLimited, frame[p].number, frame[p].ttl)
    /\ frame' = [frame EXCEPT ![p].pc = "done", ![p].ret = NoRet]
    /\ call' = IF phoneLockLimited' = phoneLockLimited THEN call ELSE LeasesChanged({})
    /\ hist' = [hist EXCEPT !.disturbed = TRUE]
    /\ UNCHANGED <<phoneNumbers, lock, lastUsedIndex, counter, order, nSelected>>

\* The TTL of a phone's lock key elapses.
LeaseExpire(n) ==
    /\ n \in Leased
    /\ phoneLockLimited' = DelKey(phoneLockLimited, n)
    /\ call' = LeasesChanged({n})
    /\ UNCHANGED <<phoneNumbers, lock, lastUsedIndex, counter, frame, hist, order, nSelected>>

\* -------------------------------------------------- GetNextPhoneNumber
BeginGetNext(p) ==
    /\ frame[p].pc = "idle"
    /\ frame' = [frame EXCEPT ![p] = [Idle EXCEPT !.pc = "zcard", !.op = "GetNextPhoneNumber"]]
    /\ call' = [call EXCEPT ![p] = [NoCall EXCEPT !.leasedThroughout = Leased]]
    /\ hist' = [hist EXCEPT !.ops = @ + 1]
    /\ UNCHANGED <<store, order, nSelected>>

\* The size read and not tested.
GetZCardNoCheck(p) ==
    /\ frame[p].pc = "zcard"
    /\ frame' = [frame EXCEPT ![p].pc = "setnx", ![p].size = ZCard(phoneNumbers),
                              ![p].i = 0]
    /\ UNCHANGED <<store, call, hist, order, nSelected>>

\* Lines 86-92.
GetZCard(p) ==
    /\ frame[p].pc = "zcard"
    /\ LET size == ZCard(phoneNumbers)
       IN frame' = [frame EXCEPT ![p] =
            IF size = 0
            THEN [@ EXCEPT !.pc = "done", !.size = size,
                           !.ret = [val |-> "", err |-> ErrNoPhones]]
            ELSE [@ EXCEPT !.pc = "setnx", !.size = size, !.i = 0]]
    /\ UNCHANGED <<store, call, hist, order, nSelected>>

\* Lines 100-105: SetNX took the lock; the Del is deferred.
AcquireLock(p) ==
    /\ frame[p].pc = "setnx"
    /\ SetNXAcquired(lock)
    /\ lock' = TRUE
    /\ frame' = [frame EXCEPT ![p].pc = "get_last"]
    /\ call' = [call EXCEPT ![p].acquired = TRUE]
    /\ UNCHANGED <<phoneNumbers, lastUsedIndex, counter, phoneLockLimited,
                   hist, order, nSelected>>

\* One attempt more than the budget.
AttemptsLeftOneMore(i) == i < maxRetries

\* Lines 99 and 199: after the failed attempt i another one follows.
AttemptsLeft(i) == i < maxRetries - 1

\* Lines 199-202: the lock is taken and attempts remain: sleep, next attempt.
LockBusyRetry(p) ==
    /\ frame[p].pc = "setnx"
    /\ ~SetNXAcquired(lock)
    /\ AttemptsLeft(frame[p].i)
    /\ frame' = [frame EXCEPT ![p].i = @ + 1]
    /\ UNCHANGED <<store, call, hist, order, nSelected>>

\* Lines 199-205: the last attempt found the lock taken: the loop ends.
LockBusyGiveUp(p) ==
    /\ frame[p].pc = "setnx"
    /\ ~SetNXAcquired(lock)
    /\ ~AttemptsLeft(frame[p].i)
    /\ frame' = [frame EXCEPT ![p].i = @ + 1, ![p].pc = "done",
                              ![p].ret = [val |-> "", err |-> ErrLockTimeout]]
    /\ UNCHANGED <<store, call, hist, order, nSelected>>

\* Lines 108-113: the last used score, -1 when the key is missing.
GetLastScore(p) ==
    /\ frame[p].pc = "get_last"
    /\ frame' = [frame EXCEPT ![p].pc = "zrange",
                              ![p].lastScore = IF lastUsedIndex = <<>> THEN -1
                                               ELSE lastUsedIndex[1]]
    /\ UNCHANGED <<store, call, hist, order, nSelected>>

\* A second loop that, finding every entry locked, falls back on the first.
SecondLoopFallsBack(f, j) ==
    IF j <= Len(f.scores)
    THEN [f EXCEPT !.pc = "second_pass", !.idx = j]
    ELSE [f EXCEPT !.pc = "set_last", !.selectedPhone = f.scores[1].Member,
                   !.selectedScore = f.scores[1].Score, !.scores = <<>>, !.idx = 0]

\* Lines 161-182 from entry j of the second loop on: the loop has no filter;
\* running off its end leaves selectedPhone == "" and returns the error,
\* which runs the deferred Del.
SecondLoopAt(f, j) ==
    IF j <= Len(f.scores)
    THEN [f EXCEPT !.pc = "second_pass", !.idx = j]
    ELSE [f EXCEPT !.pc = "del", !.scores = <<>>, !.idx = 0,
                   !.ret = [val |-> "", err |-> ErrAllLocked]]

\* Line 143: the first loop continues past entries with score <= lastScore.
RECURSIVE SkipUsed(_, _)
SkipUsed(f, j) ==
    IF j <= Len(f.scores) /\ f.scores[j].Score <= f.lastScore
    THEN SkipUsed(f, j + 1)
    ELSE j

\* Lines 138-161 from entry j of the first loop on: stop at the next entry
\* to test with Exists; running off the end enters the second loop.
FirstLoopAt(f, j) ==
    LET k == SkipUsed(f, j)
    IN IF k <= Len(f.scores)
       THEN [f EXCEPT !.pc = "first_pass", !.idx = k]
       ELSE SecondLoopAt(f, 1)

\* A wrap only when nothing at all is found from lastScore on.
WrapsOnlyWhenEmpty(scores) == Len(scores) = 0

\* Line 125: fewer than two entries from lastScore on means wrap around.
WrapsAround(scores) == Len(scores) <= 1

\* Lines 116-125: the entries with score >= lastScore (Min is inclusive).
ZRangeFromLast(p) ==
    /\ frame[p].pc = "zrange"
    /\ LET scores == ZRangeByScoreWithScores(phoneNumbers,
                                             FormatF(frame[p].lastScore), PosInf)
           f == [frame[p] EXCEPT !.scores = scores]
       IN frame' = [frame EXCEPT ![p] =
            IF WrapsAround(scores) THEN [f EXCEPT !.pc = "zrange_all"]
            ELSE FirstLoopAt(f, 1)]
    /\ UNCHANGED <<store, call, hist, order, nSelected>>

\* Lines 126-132: the whole set.
ZRangeAll(p) ==
    /\ frame[p].pc = "zrange_all"
    /\ LET scores == ZRangeByScoreWithScores(phoneNumbers, NegInf, PosInf)
       IN frame' = [frame EXCEPT ![p] = FirstLoopAt([@ EXCEPT !.scores = scores], 1)]
    /\ UNCHANGED <<store, call, hist, order, nSelected>>

\* The lock key is never looked up.
ExistsNever(keys, k) == 0

\* EXISTS on the phone's lock key: 0 iff the phone is not locked.
Exists(keys, k) == IF k \in DOMAIN keys THEN 1 ELSE 0

\* Lines 154-156; scores and the loop index are not read again.
Select(f, z) ==
    [f EXCEPT !.pc = "set_last", !.selectedPhone = z.Member,
              !.selectedScore = z.Score, !.scores = <<>>, !.idx = 0]

\* Lines 147-157: one Exists of the first loop.
FirstPassExists(p) ==
    /\ frame[p].pc = "first_pass"
    /\ LET z == frame[p].scores[frame[p].idx]
       IN frame' = [frame EXCEPT ![p] =
            IF Exists(phoneLockLimited, z.Member) = 0 THEN Select(@, z)
            ELSE FirstLoopAt(@, frame[p].idx + 1)]
    /\ UNCHANGED <<store, call, hist, order, nSelected>>

\* Lines 166-175: one Exists of the second loop.
SecondPassExists(p) ==
    /\ frame[p].pc = "second_pass"
    /\ LET z == frame[p].scores[frame[p].idx]
       IN frame' = [frame EXCEPT ![p] =
            IF Exists(phoneLockLimited, z.Member) = 0 THEN Select(@, z)
            ELSE SecondLoopAt(@, frame[p].idx + 1)]
    /\ UNCHANGED <<store, call, hist, order, nSelected>>

\* Lines 185-188.
SetLastUsed(p) ==
    /\ frame[p].pc = "set_last"
    /\ lastUsedIndex' = <<frame[p].selectedScore>>
    /\ frame' = [frame EXCEPT ![p].pc = "incr"]
    /\ call' = [call EXCEPT ![p].mutated = @ \/ lastUsedIndex' # lastUsedIndex]
    /\ UNCHANGED <<phoneNumbers, lock, counter, phoneLockLimited,
                   hist, order, nSelected>>

\* Lines 191-197: the call's result is the selected phone; the Del follows.
IncrCounter(p) ==
    /\ frame[p].pc = "incr"
    /\ counter' = Incr(counter, frame[p].selectedPhone)
    /\ frame' = [frame EXCEPT ![p].pc = "del",
                              ![p].ret = [val |-> frame[p].selectedPhone, err |-> NoErr]]
    /\ call' = [call EXCEPT ![p].mutated = TRUE]
    /\ hist' = [hist EXCEPT !.last = frame[p].selectedPhone]
    /\ UNCHANGED <<phoneNumbers, lock, lastUsedIndex, phoneLockLimited,
                   order, nSelected>>

\* A Del that leaves the lock key alone while another client is between its
\* own SetNX and Del.
DelLockIfAlone(p) ==
    /\ frame[p].pc = "del"
    /\ lock' = (lock /\ \E q \in Procs \ {p} : frame[q].pc \in HoldingPcs)
    /\ frame' = [frame EXCEPT ![p].pc = "done"]
    /\ UNCHANGED <<phoneNumbers, lastUsedIndex, counter, phoneLockLimited,
                   call, hist, order, nSelected>>

\* Line 105: the deferred Del of the lock key, whoever's SetNX created it.
DelLock(p) ==
    /\ frame[p].pc = "del"
    /\ lock' = FALSE
    /\ frame' = [frame EXCEPT ![p].pc = "done"]
    /\ hist' = [hist EXCEPT !.stale = FALSE]
    /\ UNCHANGED <<phoneNumbers, lastUsedIndex, counter, phoneLockLimited,
                   call, order, nSelected>>

\* Line 105: the deferred Del fails at the store (it is given the caller's
\* ctx); its result is discarded and the call returns what it was returning.
DelLockFails(p) ==
    /\ frame[p].pc = "del"
    /\ frame' = [frame EXCEPT ![p].pc = "done"]
    /\ hist' = [hist EXCEPT !.stale = lock]
    /\ UNCHANGED <<store, call, order, nSelected>>

\* ------------------------------------------------------------ all handlers
\* A store call fails (network, server): the handler returns the error at
\* once and its locals are gone; inside the locked block the deferred Del
\* still runs.
StoreCallPcs == {"add_zscore", "add_zrevrange", "add_zadd", "lease_zscore",
                 "lease_setnx", "zcard", "setnx"} \cup CriticalPcs

\* A failing store call that returns without the deferred Del.
StoreErrorNoDefer(p) ==
    /\ frame[p].pc \in StoreCallPcs
    /\ frame' = [frame EXCEPT ![p] =
            [Idle EXCEPT !.pc = "done", !.op = frame[p].op,
                         !.ret = [val |-> "", err |-> ErrStore]]]
    /\ UNCHANGED <<store, call, hist, order, nSelected>>

StoreError(p) ==
    /\ frame[p].pc \in StoreCallPcs
    /\ frame' = [frame EXCEPT ![p] =
            [Idle EXCEPT !.pc = IF frame[p].pc \in CriticalPcs THEN "del" ELSE "done",
                         !.op = frame[p].op,
                         !.ret = [val |-> "", err |-> ErrStore]]]
    /\ UNCHANGED <<store, call, hist, order, nSelected>>

\* The call returns to its caller (main counts nothing itself; the history
\* records which phone the caller was given).
Return(p) ==
    /\ frame[p].pc = "done"
    /\ nSelected' =
         IF frame[p].ret.val # ""
         THEN [nSelected EXCEPT ![frame[p].ret.val] = @ + 1]
         ELSE nSelected
    /\ frame' = [frame EXCEPT ![p] = Idle]
    /\ call' = [call EXCEPT ![p] = NoCall]
    /\ UNCHANGED <<store, hist, order>>

\* The client dies inside the locked block: its deferred Del never runs and
\* it takes no further step.
Crash(p) ==
    /\ frame[p].pc \in CriticalPcs
    /\ frame' = [frame EXCEPT ![p] = [Idle EXCEPT !.pc = "crashed", !.op = frame[p].op]]
    /\ UNCHANGED <<store, call, hist, order, nSelected>>

\* A key set without an expiration.
ExpiresNever(ttl) == FALSE

\* Line 100: SetNX with a zero expiration sets a key that never expires.
Expires(ttl) == ttl > 0

\* The 10 s TTL of the lock key elapses.  It outlasts nobody when no client
\* is between its SetNX and its Del.
LockExpire ==
    /\ lock
    /\ Expires(lockDuration)
    /\ lock' = FALSE
    /\ hist' = [hist EXCEPT !.stale = FALSE,
                            !.outlasted =
                    @ \/ \E p \in Procs : frame[p].pc \in HoldingPcs]
    /\ UNCHANGED <<phoneNumbers, lastUsedIndex, counter, phoneLockLimited,
                   frame, call, order, nSelected>>

\* ----------------------------------------------------------- specifications
\* A client starts a call.
Begin(p, numbers, ttls) ==
    \/ \E n \in numbers : BeginAdd(p, n)
    \/ \E n \in numbers, d \in ttls : BeginLease(p, n, d)
    \/ BeginGetNext(p)

\* A client takes the next step of the call it runs.
Step(p) ==
    \/ AddZScore(p)
    \/ AddZRevRange(p)
    \/ AddZAdd(p)
    \/ LeaseZScore(p)
    \/ LeaseSetNX(p)
    \/ GetZCard(p)
    \/ AcquireLock(p)
    \/ GetLastScore(p)
    \/ ZRangeFromLast(p)
    \/ ZRangeAll(p)
    \/ FirstPassExists(p)
    \/ SecondPassExists(p)
    \/ SetLastUsed(p)
    \/ IncrCounter(p)
    \/ DelLock(p)
    \/ Return(p)

\* One client, one call at a time, a store that answers every call.
NextSeq ==
    \/ \E p \in SeqProcs :
        \/ hist.ops < MaxOps /\ Begin(p, Phones, MainDurations)
        \/ Step(p)
    \/ \E n \in Phones : LeaseExpire(n)

SpecSeq == Init /\ [][NextSeq]_vars

\* Concurrent clients, a store that may fail a call of a handler's body (the
\* deferred Del reaches it), a lock whose TTL may elapse.
Next ==
    \/ \E p \in Procs :
        \/ hist.ops < MaxConcOps /\ Begin(p, ConcPhones, MainDurations)
        \/ Step(p)
        \/ LockBusyRetry(p)
        \/ LockBusyGiveUp(p)
        \/ StoreError(p)
    \/ \E n \in Phones : LeaseExpire(n)
    \/ LockExpire

Spec == Init /\ [][Next]_vars

\* One client whose leases ask for either duration.
NextLease ==
    \/ \E p \in SeqProcs :
        \/ hist.ops < MaxLeaseOps /\ Begin(p, Phones, Durations)
        \/ Step(p)
    \/ \E n \in Phones : LeaseExpire(n)

SpecLease == Init /\ [][NextLease]_vars

\* One client and a store that may fail any call, the deferred Del included.
NextErr ==
    \/ \E p \in SeqProcs :
        \/ hist.ops < MaxErrOps /\ Begin(p, ConcPhones, MainDurations)
        \/ Step(p)
        \/ LockBusyRetry(p)
        \/ LockBusyGiveUp(p)
        \/ StoreError(p)
        \/ DelLockFails(p)
    \/ \E n \in Phones : LeaseExpire(n)
    \/ LockExpire

SpecErr == Init /\ [][NextErr]_vars

\* Concurrent clients that may die inside the locked block.  The store
\* removes a key whose TTL has elapsed, so LockExpire is not postponed for ever.
NextCrash ==
    \/ \E p \in Procs :
        \/ hist.ops < MaxCrashOps /\ Begin(p, ConcPhones, MainDurations)
        \/ Step(p)
        \/ LockBusyRetry(p)
        \/ LockBusyGiveUp(p)
        \/ Crash(p)
    \/ \E n \in Phones : LeaseExpire(n)
    \/ LockExpire

SpecCrash == Init /\ [][NextCrash]_vars /\ WF_vars(LockExpire)

\* ---------------------------------------------------------------- claims
AllNumbers == Phones \cup ConcPhones

RECURSIVE SumOver(_, _)
SumOver(f, S) ==
    IF S = {} THEN 0
    ELSE LET m == CHOOSE x \in S : TRUE IN f[m] + SumOver(f, S \ {m})

\* Calls that have returned a phone to their caller so far.
TotalSelected == SumOver(nSelected, AllNumbers)

\* Distinct ids were added, all before the first selection, and no lease
\* was ever installed.
PlainRotation == ~hist.dupAdd /\ ~hist.disturbed

GetNextDone(p) == frame[p].pc = "done" /\ frame[p].op = "GetNextPhoneNumber"

\* C1: with N >= 1 phones added one after the other, no lease and one client,
\* every GetNextPhoneNumber call succeeds and the i-th of them returns the
\* phone at position (i-1) mod N of the insertion order.
C1_RoundRobinInInsertionOrder ==
    \A p \in Procs :
        (PlainRotation /\ GetNextDone(p) /\ Len(order) >= 1) =>
            /\ frame[p].ret.err = NoErr
            /\ frame[p].ret.val = order[(TotalSelected % Len(order)) + 1]

\* The fourth call on three phones returns the first phone again.
C1_Witness ==
    \E p \in Procs :
        /\ PlainRotation /\ GetNextDone(p)
        /\ Len(order) = 3 /\ TotalSelected = 3
        /\ frame[p].ret.val = order[1]

\* C7: non-overlapping adds of distinct ids on the empty set all succeed,
\* the first gets score 0 and each later one 1 + the highest score, so that
\* the k-th id added holds score k-1 and no id is in the set twice.
C7_RanksFollowInsertionOrder ==
    ~hist.dupAdd =>
        /\ Pool = {order[k] : k \in 1..Len(order)}
        /\ \A k \in 1..Len(order) : phoneNumbers[order[k]] = k - 1
        /\ \A j, k \in 1..Len(order) : order[j] = order[k] => j = k
        /\ \A p \in Procs :
              (frame[p].pc = "done" /\ frame[p].op = "AddPhoneNumber") =>
                  frame[p].ret.err = NoErr

C7_Witness ==
    /\ ~hist.dupAdd
    /\ Len(order) = 3
    /\ \E p \in Procs : frame[p].pc = "done" /\ frame[p].op = "AddPhoneNumber"
                        /\ phoneNumbers[frame[p].number] = 2

\* The phone a rotation owes its caller: the unlocked phone of lowest score
\* above the cursor, or else the unlocked phone of lowest score of all.
NextUnlocked(zs, cursor, locked) ==
    LET free == (DOMAIN zs) \ locked
        after == {m \in free : zs[m] > cursor}
    IN IF after # {} THEN ZMin(zs, after) ELSE ZMin(zs, free)

\* C2: a GetNextPhoneNumber call that succeeds, the locks being fixed while
\* it runs, returns the unlocked phone of lowest score above the cursor it
\* read or, if there is none, the unlocked phone of lowest score in the set.
C2_ReturnsNextUnlocked ==
    \A p \in Procs :
        (GetNextDone(p) /\ frame[p].ret.err = NoErr /\ call[p].leaseFixed) =>
            frame[p].ret.val =
                NextUnlocked(phoneNumbers, frame[p].lastScore, call[p].leasedThroughout)

\* C3: a GetNextPhoneNumber call that took the lock fails with "all are
\* locked" only when every phone in the set is locked.
C3_AllLockedOnlyWhenAllLocked ==
    \A p \in Procs :
        (GetNextDone(p) /\ frame[p].ret.err = ErrAllLocked /\ call[p].leaseFixed) =>
            Pool \subseteq call[p].leasedThroughout

\* C4: a phone whose lock key exists from the start of a GetNextPhoneNumber
\* call to its end is not the phone that call returns.
C4_LockedPhoneNotReturned ==
    \A p \in Procs :
        frame[p].ret.val # "" => frame[p].ret.val \notin call[p].leasedThroughout

\* A call returned a phone in its second loop while another phone was locked.
C4_Witness ==
    \E p \in Procs :
        /\ GetNextDone(p) /\ frame[p].ret.val # ""
        /\ call[p].leasedThroughout # {}
        /\ phoneNumbers[frame[p].ret.val] <= frame[p].lastScore

\* C5: while every phone of a non-empty set is locked, a GetNextPhoneNumber
\* call writes neither the last used score nor a counter, and it ends with
\* "all are locked".
C5_AllLockedChangesNothing ==
    [][\A p \in Procs :
          (/\ frame[p].pc \in GetNextPcs
           /\ Pool # {}
           /\ call'[p].leasedThroughout = Pool) =>
              /\ lastUsedIndex' = lastUsedIndex
              /\ counter' = counter
              /\ (frame'[p].pc = "done" => frame'[p].ret.err = ErrAllLocked)]_vars

C5_Witness ==
    \E p \in Procs :
        /\ GetNextDone(p) /\ frame[p].ret.err = ErrAllLocked
        /\ Pool # {} /\ call[p].leasedThroughout = Pool
        /\ lastUsedIndex # <<>>
        /\ counter # [m \in {} |-> 0]

\* C6: AddPhoneNumber of an id that is in the set, whatever its score, ends
\* with "already exists" and leaves the set as it was.
C6_DuplicateAddRejected ==
    [][\A p \in Procs :
          (/\ frame[p].op = "AddPhoneNumber"
           /\ frame[p].pc # "done"
           /\ frame[p].number \in Pool) =>
              /\ phoneNumbers' = phoneNumbers
              /\ (frame'[p].pc = "done" => frame'[p].ret.err = ErrExists)]_vars

\* Calls that have the phone as their result and have not yet returned it.
Returning(m) ==
    Cardinality({p \in Procs : frame[p].pc \in {"del", "done"} /\ frame[p].ret.val = m})

\* C8: the counter of a phone is the number of GetNextPhoneNumber calls that
\* returned it (those handing it back at this moment included), and a phone
\* no call returned has no counter key.
C8_CounterCountsSelections ==
    \A m \in AllNumbers :
        LET k == nSelected[m] + Returning(m)
        IN IF k = 0 THEN m \notin DOMAIN counter
           ELSE m \in DOMAIN counter /\ counter[m] = k

C8_Witness ==
    \E m, n \in AllNumbers :
        /\ m \in DOMAIN counter /\ counter[m] = 2 /\ nSelected[m] = 2
        /\ n \in Pool /\ n \notin DOMAIN counter

Holders == {p \in Procs : frame[p].pc \in HoldingPcs}

\* C9: as long as the lock's TTL has not elapsed under a client that took it,
\* at most one client is between its successful SetNX and its Del, and the
\* lock key exists while it is.
C9_MutualExclusion ==
    ~hist.outlasted =>
        /\ Cardinality(Holders) <= 1
        /\ (Holders # {} => lock)

\* One client is in the critical section while the other has found the lock
\* taken and waits for its next attempt.
C9_Witness ==
    \E p, q \in Procs :
        /\ ~hist.outlasted
        /\ frame[p].pc \in CriticalPcs
        /\ frame[q].pc = "setnx" /\ frame[q].i >= 1

\* The call of p has a phone as its result, read at least two phones in the
\* set, and no phone was locked while it ran.
SelectedUnleased(p) ==
    /\ frame[p].pc \in {"del", "done"}
    /\ frame[p].ret.val # ""
    /\ frame[p].size >= Cardinality(Procs)
    /\ call[p].leaseFixed /\ call[p].leasedThroughout = {}

\* C10: two concurrent GetNextPhoneNumber calls that both take the lock, on
\* a set of at least two phones none of which is locked, return different
\* phones, and they read different last used scores.
C10_ConcurrentCallsDistinct ==
    \A p, q \in Procs :
        (p # q /\ SelectedUnleased(p) /\ SelectedUnleased(q)) =>
            /\ frame[p].ret.val # frame[q].ret.val
            /\ frame[p].lastScore # frame[q].lastScore

\* C11: a GetNextPhoneNumber call that returns an error (no phones, lock
\* timeout, all locked, or a failed store call, the Set of the last used index
\* and the Incr included) has changed neither the last used index nor a counter.
C11_ErrorChangesNothing ==
    \A p \in SeqProcs :
        (GetNextDone(p) /\ frame[p].ret.err # NoErr) => ~call[p].mutated

LeaseDone(p) == frame[p].pc = "done" /\ frame[p].op = "SetPhoneNumberLockLimited"

\* C12: SetPhoneNumberLockLimited of an id that is not in the set ends with
\* "does not exist" and creates no lock key; of an id that is in the set it
\* returns nil and the id's lock key exists afterwards.
C12_LeaseNeedsMember ==
    [][\A p \in SeqProcs :
          (/\ frame[p].op = "SetPhoneNumberLockLimited"
           /\ frame[p].pc # "done" /\ frame'[p].pc = "done") =>
              IF frame[p].number \in Pool
              THEN /\ frame'[p].ret.err = NoErr
                   /\ frame[p].number \in DOMAIN phoneLockLimited'
              ELSE /\ frame'[p].ret.err = ErrNotExist
                   /\ phoneLockLimited' = phoneLockLimited]_vars

C12_Witness ==
    \E p \in SeqProcs :
        /\ LeaseDone(p) /\ frame[p].ret.err = ErrNotExist
        /\ frame[p].number \notin Leased
        /\ Leased # {} /\ Pool # {}

\* C13: SetPhoneNumberLockLimited of a phone whose lock key exists returns nil
\* and changes nothing: the key keeps the TTL it has, whatever duration the
\* call passes.
C13_LeaseOfLeasedIsNoOp ==
    [][\A p \in SeqProcs :
          (/\ frame[p].pc = "lease_setnx"
           /\ frame[p].number \in Leased
           /\ frame'[p].pc = "done") =>
              /\ frame'[p].ret.err = NoErr
              /\ UNCHANGED store]_vars

C13_Witness ==
    \E p \in SeqProcs :
        /\ LeaseDone(p) /\ frame[p].ret.err = NoErr
        /\ frame[p].number \in Leased
        /\ phoneLockLimited[frame[p].number] # frame[p].ttl

\* C14: on an empty set GetNextPhoneNumber ends at its first store call with
\* "no phone numbers available": it does not try the lock and touches neither
\* the last used index nor a counter.
C14_EmptySetFailsAtOnce ==
    [][\A p \in SeqProcs :
          (/\ frame[p].pc = "zcard"
           /\ Pool = {}
           /\ frame'[p] # frame[p]) =>
              /\ frame'[p].pc = "done"
              /\ frame'[p].ret.err = ErrNoPhones
              /\ ~call'[p].acquired
              /\ UNCHANGED store]_vars

C14_Witness ==
    \E p \in SeqProcs :
        /\ GetNextDone(p) /\ frame[p].ret.err = ErrNoPhones
        /\ Pool = {} /\ ~lock /\ ~call[p].acquired

\* C15: a GetNextPhoneNumber call makes at most maxRetries attempts at the
\* lock.  The first attempt that finds the lock free enters the locked block;
\* an attempt that finds it taken changes nothing in the store, and when it
\* was the last of the budget the call ends with "failed to acquire lock"
\* without having entered the locked block.
C15_BoundedAttempts ==
    [][\A p \in Procs :
          frame[p].pc = "setnx" =>
              /\ frame[p].i < maxRetries
              /\ (frame'[p] # frame[p] /\ frame'[p].ret.err # ErrStore) =>
                    IF ~lock
                    THEN frame'[p].pc = "get_last" /\ call'[p].acquired
                    ELSE /\ frame'[p].i = frame[p].i + 1
                         /\ ~call'[p].acquired
                         /\ UNCHANGED store
                         /\ IF frame'[p].i < maxRetries
                            THEN frame'[p].pc = "setnx"
                            ELSE /\ frame'[p].pc = "done"
                                 /\ frame'[p].ret.err = ErrLockTimeout]_vars

C15_Witness ==
    \E p \in Procs :
        /\ GetNextDone(p) /\ frame[p].ret.err = ErrLockTimeout
        /\ frame[p].i = maxRetries
        /\ ~call[p].acquired /\ ~call[p].mutated

C18_ReleaseIgnoresOwner ==
    [][\A p, q \in Procs :
          (/\ p # q
           /\ frame[p].pc = "del" /\ frame'[p].pc = "done"
           /\ frame[q].pc \in CriticalPcs) => ~lock']_vars

\* Both clients read the same last used score and selected the same phone;
\* the first is about to run its Del on the lock the second took.
C18_Witness ==
    \E p, q \in Procs :
        /\ p # q
        /\ frame[p].pc = "del" /\ frame[p].ret.val # ""
        /\ frame[q].pc \in {"set_last", "incr"}
        /\ call[p].acquired /\ call[q].acquired
        /\ frame[q].lastScore = frame[p].lastScore
        /\ frame[p].lastScore # frame[p].selectedScore
        /\ frame[q].selectedPhone = frame[p].ret.val
        /\ lock /\ hist.outlasted

\* C19: with AddPhoneNumber calls running concurrently with each other and
\* with GetNextPhoneNumber, whatever the interleaving, no two phones of the
\* set have the same score.
C19_RanksUniqueUnderConcurrency ==
    \A a, b \in Pool : a # b => phoneNumbers[a] # phoneNumbers[b]

\* C20: between calls the last used index is missing, or it is the score the
\* set now holds for the phone the latest successful GetNextPhoneNumber
\* returned.
C20_CursorIsRankOfLastReturned ==
    (\A p \in SeqProcs : frame[p].pc \notin CriticalPcs) =>
        IF hist.last = ""
        THEN lastUsedIndex = <<>>
        ELSE /\ hist.last \in Pool
             /\ lastUsedIndex = <<phoneNumbers[hist.last]>>

\* A client died inside the locked block and the lock key is there.
LockedAfterCrash == lock /\ \E p \in Procs : frame[p].pc = "crashed"

\* C17: after a client died inside the locked block the lock key does not
\* stay for ever, and an attempt made while the key is missing takes the lock.
C17_NoPermanentLockout ==
    /\ LockedAfterCrash ~> ~lock
    /\ [][\A p \in Procs :
            (frame[p].pc = "setnx" /\ ~lock /\ frame'[p] # frame[p]) =>
                frame'[p].pc = "get_last" /\ lock']_vars

\* A client crashed holding the lock, no TTL elapsed under a live holder, and
\* another client is inside the locked block.
C17_Witness ==
    \E p, q \in Procs :
        /\ frame[p].pc = "crashed" /\ call[p].acquired
        /\ frame[q].pc \in CriticalPcs /\ call[q].acquired
        /\ lock /\ ~hist.outlasted
====
